---- MODULE Spec2Model ----
(***************************************************************************)
(* Model of calculate_investment (src/calculator.py): the month-by-month   *)
(* comparison of buying a home with a mortgage against renting and         *)
(* investing the cash-flow difference.                                     *)
(*                                                                         *)
(* Numbers.  The program computes in Python floats.  The model computes in *)
(* exact rationals, [n |-> numerator, d |-> denominator > 0] in lowest     *)
(* terms, so "equal within floating-point tolerance" in the program is     *)
(* "equal" here.  Inputs are drawn from values on which every operation of *)
(* the program is exact in the rationals: the stock rate is 0 or 4095, so  *)
(* that (1 + r) ** (1/12) is 1 or 2; the house growth rate is 0 or 255, so *)
(* that (1 + g) ** (k/8) is 1 or 2^k; years are given in eighths, which    *)
(* are exact in binary floating point, so int(years * 12) truncates the    *)
(* same value in the program and in the model.                             *)
(***************************************************************************)
EXTENDS Integers, Sequences, FiniteSets, TLC

(***************************************************************************)
(* Bounds of the model.                                                    *)
(***************************************************************************)
\* amounts: loan_amount, down_payment and rent_initial range over -1..Max
MaxLoan == 1
MaxDown == 1
MaxRent == 1
\* mortgage_years of the parameter sets with compound rates, in eighths of a year
MaxYearsE == 8
\* mortgage_years of the parameter sets without compound growth, in eighths
\* (the three longest horizons are taken)
MaxLongYearsE == 17
\* grace_period_years, in eighths of a year
MaxGraceE == 2

\* months in a year
MonthsPerYear == 12

(***************************************************************************)
(* Exact rational arithmetic.                                              *)
(***************************************************************************)
Abs(x) == IF x < 0 THEN -x ELSE x

RECURSIVE GCD(_, _)
GCD(a, b) == IF b = 0 THEN a ELSE GCD(b, a % b)

\* n / d in lowest terms, d > 0
Norm(n, d) ==
    LET g == GCD(Abs(n), d)
    IN  [n |-> n \div g, d |-> d \div g]

\* n / d for any d # 0
Frac(n, d) == IF d > 0 THEN Norm(n, d) ELSE Norm(-n, -d)

R(k) == [n |-> k, d |-> 1]

RAdd(a, b) ==
    LET g == GCD(a.d, b.d)
    IN  Norm(a.n * (b.d \div g) + b.n * (a.d \div g), (a.d \div g) * b.d)

RNeg(a) == [n |-> -a.n, d |-> a.d]

RSub(a, b) == RAdd(a, RNeg(b))

RMul(a, b) ==
    LET g1 == GCD(Abs(a.n), b.d)
        g2 == GCD(Abs(b.n), a.d)
    IN  [n |-> (a.n \div g1) * (b.n \div g2), d |-> (a.d \div g2) * (b.d \div g1)]

\* 1 / a, a # 0
RInv(a) == IF a.n > 0 THEN [n |-> a.d, d |-> a.n] ELSE [n |-> -a.d, d |-> -a.n]

RDiv(a, b) == RMul(a, RInv(b))

RLt(a, b) == RSub(a, b).n < 0

RLe(a, b) == RSub(a, b).n <= 0

RECURSIVE RPowNat(_, _)
RPowNat(a, k) == IF k = 0 THEN R(1) ELSE RMul(a, RPowNat(a, k - 1))

\* a ** k for an integer k (a # 0 when k < 0)
RPow(a, k) == IF k >= 0 THEN RPowNat(a, k) ELSE RInv(RPowNat(a, -k))

\* the roots the inputs of the model have: x ** (1/k) for x >= 0
RootCandidates == {R(0), R(1), R(2), R(4), R(16)}

Root(x, k) == CHOOSE q \in RootCandidates : RPowNat(q, k) = x

\* a ** e for a rational exponent e
RPowFrac(a, e) == IF e.d = 1 THEN RPow(a, e.n) ELSE RPow(Root(a, e.d), e.n)

\* int(x): truncation toward zero
IntTrunc(a) == IF a.n >= 0 THEN a.n \div a.d ELSE -((-a.n) \div a.d)

(***************************************************************************)
(* The parameter sets.                                                     *)
(***************************************************************************)
MortgageRates == {R(-12), R(0), R(12)}
RentGrowthRates == {R(0), R(1)}
HouseGrowthRates == {R(0), R(255)}
StockReturnRates == {R(0), R(4095)}

ParamSets(years, graces, mrates, rgrates, hgrates, srates) ==
    [loan_amount : {R(k) : k \in -1..MaxLoan},
     down_payment : {R(k) : k \in -1..MaxDown},
     mortgage_rate : mrates,
     rent_initial : {R(k) : k \in -1..MaxRent},
     rent_growth_rate : rgrates,
     house_growth_rate : hgrates,
     stock_return_rate : srates,
     grace_period_years : {Frac(e, 8) : e \in graces},
     invest_difference : BOOLEAN,
     mortgage_years : {Frac(e, 8) : e \in years}]

\* horizons of up to MaxYearsE eighths of a year: every mortgage rate, stock
\* rate and grace period, the rent and the house price growing
ShortParams ==
    ParamSets(-1..MaxYearsE, -1..MaxGraceE, MortgageRates, {R(1)}, {R(255)},
              StockReturnRates)

\* the longest horizons, over which the rent is adjusted once and twice,
\* without the compound factors (1+i)^n and (1+r)^m
LongParams ==
    ParamSets((MaxLongYearsE - 2)..MaxLongYearsE, {0, MaxGraceE}, {R(0)},
              RentGrowthRates, HouseGrowthRates, {R(0)})

Params == ShortParams \cup LongParams

(***************************************************************************)
(* calculate_investment: the values computed before the loop.              *)
(***************************************************************************)
HousePriceInitial(p) == RAdd(p.loan_amount, p.down_payment)

MonthlyMortgageRate(p) == RDiv(p.mortgage_rate, R(MonthsPerYear))

TotalMonths(p) == IntTrunc(RMul(p.mortgage_years, R(MonthsPerYear)))

GraceMonths(p) == IntTrunc(RMul(p.grace_period_years, R(MonthsPerYear)))

\* variant: the grace months are not subtracted
RemainingMonths_FullTerm(p) == TotalMonths(p)

RemainingMonths(p) == TotalMonths(p) - GraceMonths(p)

\* variant: the denominator loses its parentheses, P * (i * (1 + i)**n) / (1 + i)**n - 1
Annuity_Precedence(P, i, n) ==
    RSub(RDiv(RMul(P, RMul(i, RPow(RAdd(R(1), i), n))), RPow(RAdd(R(1), i), n)),
         R(1))

\* variant: the exponent is one month too long
Annuity_ExtraMonth(P, i, n) ==
    RDiv(RMul(P, RMul(i, RPow(RAdd(R(1), i), n + 1))),
         RSub(RPow(RAdd(R(1), i), n + 1), R(1)))

\* variant: the denominator is 1 - (1 + i)**n
Annuity_NegatedDenominator(P, i, n) ==
    RDiv(RMul(P, RMul(i, RPow(RAdd(R(1), i), n))),
         RSub(R(1), RPow(RAdd(R(1), i), n)))

\* P * (i * (1 + i)**n) / ((1 + i)**n - 1)
Annuity(P, i, n) ==
    RDiv(RMul(P, RMul(i, RPow(RAdd(R(1), i), n))),
         RSub(RPow(RAdd(R(1), i), n), R(1)))

\* variant: the whole principal falls due when no month is left
PostGracePayment_DegenerateLump(p) ==
    IF RemainingMonths(p) > 0
    THEN IF RLt(R(0), MonthlyMortgageRate(p))
         THEN Annuity(p.loan_amount, MonthlyMortgageRate(p), RemainingMonths(p))
         ELSE RDiv(p.loan_amount, R(RemainingMonths(p)))
    ELSE p.loan_amount

PostGracePayment(p) ==
    IF RemainingMonths(p) > 0
    THEN IF RLt(R(0), MonthlyMortgageRate(p))
         THEN Annuity(p.loan_amount, MonthlyMortgageRate(p), RemainingMonths(p))
         ELSE RDiv(p.loan_amount, R(RemainingMonths(p)))
    ELSE R(0)

\* variant: 1/12 is an integer division, (1 + stock_return_rate) ** 0 - 1
MonthlyStockReturn_IntegerExponent(p) ==
    RSub(RPow(RAdd(R(1), p.stock_return_rate), 0), R(1))

\* (1 + stock_return_rate) ** (1/12) - 1
MonthlyStockReturn(p) ==
    RSub(RPowFrac(RAdd(R(1), p.stock_return_rate), Frac(1, MonthsPerYear)), R(1))

(***************************************************************************)
(* calculate_investment: one iteration of the loop.                        *)
(***************************************************************************)
\* variant: the last grace month is charged the post-grace payment
MortgagePay_StrictGrace(p, m, post) ==
    IF m < GraceMonths(p)
    THEN RMul(p.loan_amount, MonthlyMortgageRate(p))
    ELSE post

\* variant: every month is charged the post-grace payment
MortgagePay_PostOnly(p, m, post) == post

MortgagePay(p, m, post) ==
    IF m <= GraceMonths(p)
    THEN RMul(p.loan_amount, MonthlyMortgageRate(p))
    ELSE post

\* variant: the adjustment falls on months 12, 24, ...
RentAdjusts_EveryTwelfth(m) == m % MonthsPerYear = 0

RentAdjusts(m) == m > 1 /\ (m - 1) % MonthsPerYear = 0

NextRent(p, m, rent) ==
    IF RentAdjusts(m) THEN RMul(rent, RAdd(R(1), p.rent_growth_rate)) ELSE rent

\* variant: the month is charged before the rent is adjusted
RentCharged_BeforeAdjust(p, m, rent) == rent

\* the rent added to total_rent_paid in month m, from the rent before the month
RentCharged(p, m, rent) == NextRent(p, m, rent)

Grow(portfolio, r) == RMul(portfolio, RAdd(R(1), r))

\* variant: the difference is added before the growth
PortfolioAfter_ContributeFirst(p, portfolio, r, diff) ==
    IF p.invest_difference THEN Grow(RAdd(portfolio, diff), r) ELSE Grow(portfolio, r)

\* stock_portfolio after the month: growth, then the difference when invested
PortfolioAfter(p, portfolio, r, diff) ==
    IF p.invest_difference THEN RAdd(Grow(portfolio, r), diff) ELSE Grow(portfolio, r)

\* variant: the difference is saved whatever the flag
CashAfter_Always(p, cash, diff) == RAdd(cash, diff)

\* variant: the savings are clamped at zero
CashAfter_Clamped(p, cash, diff) ==
    IF p.invest_difference
    THEN cash
    ELSE IF RLt(RAdd(cash, diff), R(0)) THEN R(0) ELSE RAdd(cash, diff)

CashAfter(p, cash, diff) ==
    IF p.invest_difference THEN cash ELSE RAdd(cash, diff)

(***************************************************************************)
(* calculate_investment: after the loop.                                   *)
(***************************************************************************)
\* variant: the house grows over the whole years of the term only
FinalHouseValue_WholeYears(p) ==
    RMul(HousePriceInitial(p),
         RPow(RAdd(R(1), p.house_growth_rate), IntTrunc(p.mortgage_years)))

FinalHouseValue(p) ==
    RMul(HousePriceInitial(p),
         RPowFrac(RAdd(R(1), p.house_growth_rate), p.mortgage_years))

\* variant: the uninvested cash is left out of the renter's net worth
RentNetWorth_PortfolioOnly(portfolio, cash) == portfolio

\* rent_net_worth = stock_portfolio + cash_savings
RentNetWorth(portfolio, cash) == RAdd(portfolio, cash)

\* variant: the annual interest is reported, loan_amount * mortgage_rate
GraceMonthlyPay_Annual(p) ==
    IF GraceMonths(p) > 0 THEN RMul(p.loan_amount, p.mortgage_rate) ELSE R(0)

\* loan_amount * monthly_mortgage_rate if grace_months > 0 else 0
GraceMonthlyPay(p) ==
    IF GraceMonths(p) > 0
    THEN RMul(p.loan_amount, MonthlyMortgageRate(p))
    ELSE R(0)

\* variant: range(1, total_months) stops one month early
LoopContinues_Exclusive(p, m) == m < TotalMonths(p) - 1

\* line 64: range(1, total_months + 1) has a value after m
LoopContinues(p, m) == m < TotalMonths(p)

VARIABLES
    params,                 \* the arguments of the call
    pc,                     \* "call", "loop", "done"
    month,                  \* the loop variable; 0 before the first iteration
    post_grace_payment,
    monthly_stock_return,
    stock_portfolio,
    total_mortgage_paid,
    total_rent_paid,
    current_rent,
    cash_savings,
    mortgage_pay,           \* the payment of the last iteration
    result,                 \* {} until the call returns, then {the record}
    calls,                  \* the number of calls the caller has made
    history,                \* the caller's <<arguments, record>> of each finished call
    other                   \* the locals of a second call in progress, or NoCall

vars == <<params, pc, month, post_grace_payment, monthly_stock_return,
          stock_portfolio, total_mortgage_paid, total_rent_paid, current_rent,
          cash_savings, mortgage_pay, result, calls, history, other>>

\* the caller has no second call in progress
NoCall == [pc |-> "none"]

InitCall ==
    /\ params \in Params
    /\ pc = "call"
    /\ month = 0
    /\ post_grace_payment = R(0)
    /\ monthly_stock_return = R(0)
    /\ stock_portfolio = R(0)
    /\ total_mortgage_paid = R(0)
    /\ total_rent_paid = R(0)
    /\ current_rent = R(0)
    /\ cash_savings = R(0)
    /\ mortgage_pay = R(0)
    /\ result = {}

\* one call, the first of its caller
Init ==
    /\ InitCall
    /\ calls = 1
    /\ history = << >>
    /\ other = NoCall

\* variant: the rent total is kept from the call before (a module-level total)
Precompute_KeepsTotals ==
    /\ pc = "call"
    /\ pc' = "loop"
    /\ post_grace_payment' = PostGracePayment(params)
    /\ monthly_stock_return' = MonthlyStockReturn(params)
    /\ stock_portfolio' = params.down_payment
    /\ total_mortgage_paid' = R(0)
    /\ total_rent_paid' = total_rent_paid
    /\ current_rent' = params.rent_initial
    /\ cash_savings' = R(0)
    /\ UNCHANGED <<params, month, mortgage_pay, result, calls, history, other>>

\* lines 30-61: the constants of the run and the initial accumulators
Precompute ==
    /\ pc = "call"
    /\ pc' = "loop"
    /\ post_grace_payment' = PostGracePayment(params)
    /\ monthly_stock_return' = MonthlyStockReturn(params)
    /\ stock_portfolio' = params.down_payment
    /\ total_mortgage_paid' = R(0)
    /\ total_rent_paid' = R(0)
    /\ current_rent' = params.rent_initial
    /\ cash_savings' = R(0)
    /\ UNCHANGED <<params, month, mortgage_pay, result, calls, history, other>>

\* lines 64-87: one iteration of for month in range(1, total_months + 1)
MonthStep ==
    /\ pc = "loop"
    /\ LoopContinues(params, month)
    /\ LET m == month + 1
           pay == MortgagePay(params, m, post_grace_payment)
           rent == RentCharged(params, m, current_rent)
           diff == RSub(pay, rent)
       IN  /\ month' = m
           /\ mortgage_pay' = pay
           /\ total_mortgage_paid' = RAdd(total_mortgage_paid, pay)
           /\ current_rent' = NextRent(params, m, current_rent)
           /\ total_rent_paid' = RAdd(total_rent_paid, rent)
           /\ stock_portfolio' =
                  PortfolioAfter(params, stock_portfolio, monthly_stock_return, diff)
           /\ cash_savings' = CashAfter(params, cash_savings, diff)
    /\ UNCHANGED <<params, pc, post_grace_payment, monthly_stock_return, result,
                   calls, history, other>>

\* lines 98-118: the dict built from the arguments and the locals
ReturnValue(p, mortgage_paid, rent_paid, portfolio, cash, post) ==
    [house_price_initial |-> HousePriceInitial(p),
     loan_amount |-> p.loan_amount,
     down_payment |-> p.down_payment,
     mortgage_years |-> p.mortgage_years,
     grace_period_years |-> p.grace_period_years,
     mortgage_rate |-> p.mortgage_rate,
     house_growth_rate |-> p.house_growth_rate,
     rent_initial |-> p.rent_initial,
     rent_growth_rate |-> p.rent_growth_rate,
     stock_return_rate |-> p.stock_return_rate,
     buy_net_worth |-> FinalHouseValue(p),
     buy_total_spent |-> RAdd(p.down_payment, mortgage_paid),
     total_mortgage_paid |-> mortgage_paid,
     rent_net_worth |-> RentNetWorth(portfolio, cash),
     total_rent_paid |-> rent_paid,
     final_stock_portfolio |-> portfolio,
     cash_savings |-> cash,
     grace_monthly_pay |-> GraceMonthlyPay(p),
     post_grace_monthly_pay |-> post]

ResultRecord ==
    ReturnValue(params, total_mortgage_paid, total_rent_paid, stock_portfolio,
                cash_savings, post_grace_payment)

\* lines 89-118: the loop is over; the result record is returned
Return ==
    /\ pc = "loop"
    /\ ~LoopContinues(params, month)
    /\ pc' = "done"
    /\ result' = {ResultRecord}
    /\ history' = Append(history, <<params, ResultRecord>>)
    /\ UNCHANGED <<params, month, post_grace_payment, monthly_stock_return,
                   stock_portfolio, total_mortgage_paid, total_rent_paid,
                   current_rent, cash_savings, mortgage_pay, calls, other>>

Next == Precompute \/ MonthStep \/ Return

Spec == Init /\ [][Next]_vars

\* ---- the locals of a call as one value ----

\* the locals of the call in progress
Frame ==
    [params |-> params, pc |-> pc, month |-> month,
     post_grace_payment |-> post_grace_payment,
     monthly_stock_return |-> monthly_stock_return,
     stock_portfolio |-> stock_portfolio,
     total_mortgage_paid |-> total_mortgage_paid,
     total_rent_paid |-> total_rent_paid,
     current_rent |-> current_rent,
     cash_savings |-> cash_savings,
     mortgage_pay |-> mortgage_pay,
     result |-> result]

\* the locals at the entry of a call with arguments p
InitFrame(p) ==
    [params |-> p, pc |-> "call", month |-> 0,
     post_grace_payment |-> R(0),
     monthly_stock_return |-> R(0),
     stock_portfolio |-> R(0),
     total_mortgage_paid |-> R(0),
     total_rent_paid |-> R(0),
     current_rent |-> R(0),
     cash_savings |-> R(0),
     mortgage_pay |-> R(0),
     result |-> {}]

\* lines 30-61 on the locals f
PrecomputeFrame(f) ==
    [f EXCEPT !.pc = "loop",
              !.post_grace_payment = PostGracePayment(f.params),
              !.monthly_stock_return = MonthlyStockReturn(f.params),
              !.stock_portfolio = f.params.down_payment,
              !.total_mortgage_paid = R(0),
              !.total_rent_paid = R(0),
              !.current_rent = f.params.rent_initial,
              !.cash_savings = R(0)]

\* lines 64-87 on the locals f: one iteration
MonthFrame(f) ==
    LET m == f.month + 1
        pay == MortgagePay(f.params, m, f.post_grace_payment)
        rent == RentCharged(f.params, m, f.current_rent)
        diff == RSub(pay, rent)
    IN  [f EXCEPT !.month = m,
                  !.mortgage_pay = pay,
                  !.total_mortgage_paid = RAdd(f.total_mortgage_paid, pay),
                  !.current_rent = NextRent(f.params, m, f.current_rent),
                  !.total_rent_paid = RAdd(f.total_rent_paid, rent),
                  !.stock_portfolio =
                      PortfolioAfter(f.params, f.stock_portfolio,
                                     f.monthly_stock_return, diff),
                  !.cash_savings = CashAfter(f.params, f.cash_savings, diff)]

\* lines 89-118 on the locals f
ReturnFrame(f) ==
    [f EXCEPT !.pc = "done",
              !.result = {ReturnValue(f.params, f.total_mortgage_paid,
                                      f.total_rent_paid, f.stock_portfolio,
                                      f.cash_savings, f.post_grace_payment)}]

\* the next step of the call with locals f
StepFrame(f) ==
    IF f.pc = "call" THEN PrecomputeFrame(f)
    ELSE IF f.pc = "loop" /\ LoopContinues(f.params, f.month) THEN MonthFrame(f)
    ELSE IF f.pc = "loop" THEN ReturnFrame(f)
    ELSE f

\* the locals at the end of the call that starts with locals f and runs
\* on its own
RECURSIVE RunAlone(_)
RunAlone(f) == IF f.pc = "done" THEN f ELSE RunAlone(StepFrame(f))

\* the record the call with arguments p returns when it runs on its own
ResultAlone(p) == RunAlone(InitFrame(p)).result

\* ---- a caller that calls again and again ----

MaxCalls == 3

\* the arguments of the repeated calls: two horizons, with and without a
\* grace month, both settings of the flag
SeqParams ==
    {p \in ShortParams : /\ p.loan_amount = R(1)
                         /\ p.down_payment = R(1)
                         /\ p.rent_initial = R(1)
                         /\ p.mortgage_rate = R(12)
                         /\ p.stock_return_rate = R(4095)
                         /\ p.grace_period_years \in {R(0), Frac(1, 8)}
                         /\ p.mortgage_years \in {Frac(1, 8), Frac(3, 8)}}

InitSeq == Init /\ params \in SeqParams

\* the caller calls calculate_investment again; whatever the call before
\* wrote is still in memory
Call ==
    /\ pc = "done"
    /\ calls < MaxCalls
    /\ calls' = calls + 1
    /\ params' \in SeqParams
    /\ pc' = "call"
    /\ month' = 0
    /\ result' = {}
    /\ UNCHANGED <<post_grace_payment, monthly_stock_return, stock_portfolio,
                   total_mortgage_paid, total_rent_paid, current_rent,
                   cash_savings, mortgage_pay, history, other>>

NextSeq == Precompute \/ MonthStep \/ Return \/ Call

SpecSeq == InitSeq /\ [][NextSeq]_vars

\* ---- two calls in progress at once ----

\* a second call with other arguments has been entered
InitPar ==
    /\ InitCall
    /\ params \in SeqParams
    /\ calls = 1
    /\ history = << >>
    /\ other \in {InitFrame(q) : q \in SeqParams \ {params}}

\* variant: total_rent_paid is one variable shared by the two calls
StepOther_SharedTotal ==
    /\ other.pc \in {"call", "loop"}
    /\ LET g == StepFrame([other EXCEPT !.total_rent_paid = total_rent_paid])
       IN  /\ other' = g
           /\ total_rent_paid' = g.total_rent_paid
    /\ UNCHANGED <<params, pc, month, post_grace_payment, monthly_stock_return,
                   stock_portfolio, total_mortgage_paid, current_rent,
                   cash_savings, mortgage_pay, result, calls, history>>

\* the second call takes its next step on its own locals
StepOther ==
    /\ other.pc \in {"call", "loop"}
    /\ other' = StepFrame(other)
    /\ UNCHANGED <<params, pc, month, post_grace_payment, monthly_stock_return,
                   stock_portfolio, total_mortgage_paid, total_rent_paid,
                   current_rent, cash_savings, mortgage_pay, result, calls,
                   history>>

NextPar == Precompute \/ MonthStep \/ Return \/ StepOther

SpecPar == InitPar /\ [][NextPar]_vars

\* the calls with unit amounts: every horizon, grace period and rate
PassParams ==
    {p \in Params : /\ p.loan_amount = R(1)
                    /\ p.down_payment = R(1)
                    /\ p.rent_initial = R(1)}

InitPass == Init /\ params \in PassParams

\* the control part of a step of Next: a call that has not returned moves
\* on to "loop" or "done", the loop variable stands or goes up by one
Advance ==
    /\ pc # "done"
    /\ pc' \in {"loop", "done"}
    /\ month' \in {month, month + 1}

\* the interpreter runs the call to its end: while the call has not
\* returned, its next statement is executed
SpecFair == InitPass /\ [][Next]_vars /\ WF_<<pc, month>>(Advance)

TypeOK ==
    /\ pc \in {"call", "loop", "done"}
    /\ month \in 0..30
    /\ (result = {}) = (pc # "done")

(***************************************************************************)
(* Properties.                                                             *)
(***************************************************************************)
\* the constraints of the data model on a parameter set
ParamsValid(p) ==
    /\ RLe(R(0), p.loan_amount)
    /\ RLe(R(0), p.down_payment)
    /\ RLe(R(0), p.mortgage_rate)
    /\ RLt(R(0), p.mortgage_years)
    /\ RLe(R(0), p.grace_period_years)
    /\ RLe(p.grace_period_years, p.mortgage_years)
    /\ RLe(R(0), p.rent_initial)

\* the locals of the run are set once Precompute has acted
Started == pc # "call"

\* C1: a parameter set that violates a constraint of the data model ends the
\* call before the first month is simulated, and no result record is produced.
C1_EagerValidation ==
    ~ParamsValid(params) => (month = 0 /\ result = {})

\* C2: in every month up to grace_months the payment charged is
\* loan_amount * monthly_mortgage_rate, and in every later month it is the
\* precomputed post-grace payment.
C2_GracePeriodInvariance ==
    (Started /\ month >= 1) =>
        IF month <= IntTrunc(RMul(params.grace_period_years, R(12)))
        THEN mortgage_pay = RMul(params.loan_amount, RDiv(params.mortgage_rate, R(12)))
        ELSE mortgage_pay = post_grace_payment

\* a post-grace month that follows at least two grace months, the two payments differing
C2_Witness ==
    /\ pc = "loop"
    /\ GraceMonths(params) >= 2
    /\ month = GraceMonths(params) + 1
    /\ params.loan_amount = R(1)
    /\ params.mortgage_rate = R(12)
    /\ mortgage_pay # RMul(params.loan_amount, MonthlyMortgageRate(params))

\* C3: with monthly rate i > 0 and n = remaining_months > 0 the post-grace
\* payment p satisfies p * ((1+i)^n - 1) = loan_amount * i * (1+i)^n.
AmortizationIdentity(P, i, n, pay) ==
    RMul(pay, RSub(RPow(RAdd(R(1), i), n), R(1)))
        = RMul(P, RMul(i, RPow(RAdd(R(1), i), n)))

C3_AmortizationIdentity ==
    LET i == RDiv(params.mortgage_rate, R(12))
        n == RemainingMonths(params)
    IN  (Started /\ RLt(R(0), i) /\ n > 0) =>
            /\ AmortizationIdentity(params.loan_amount, i, n, post_grace_payment)
            /\ \A r \in result :
                   AmortizationIdentity(params.loan_amount, i, n, r.post_grace_monthly_pay)

\* a returned record for a loan of 1 at 100% a month over 12 remaining months
C3_Witness ==
    /\ pc = "done"
    /\ params.loan_amount = R(1)
    /\ params.mortgage_rate = R(12)
    /\ RemainingMonths(params) = 12
    /\ \E r \in result : r.post_grace_monthly_pay = Frac(4096, 4095)

\* C4: with mortgage_rate = 0 and remaining_months > 0 the post-grace payment
\* is loan_amount / remaining_months, and the post-grace payments of the run
\* add up to loan_amount.
C4_ZeroRateAmortization ==
    LET n == TotalMonths(params) - GraceMonths(params)
    IN  (Started /\ params.mortgage_rate = R(0) /\ n > 0) =>
            /\ post_grace_payment = RDiv(params.loan_amount, R(n))
            /\ RMul(R(n), post_grace_payment) = params.loan_amount
            /\ (pc = "done" /\ GraceMonths(params) >= 0) =>
                   total_mortgage_paid = params.loan_amount

\* a finished run at rate 0 with grace months and a payment that is not a whole number
C4_Witness ==
    /\ pc = "done"
    /\ params.mortgage_rate = R(0)
    /\ params.loan_amount = R(1)
    /\ GraceMonths(params) = 3
    /\ RemainingMonths(params) = 7
    /\ post_grace_payment = Frac(1, 7)
    /\ total_mortgage_paid = R(1)

\* the outstanding balance after k post-grace payments of pay
RECURSIVE Balance(_, _, _, _)
Balance(P, i, pay, k) ==
    IF k = 0 THEN P ELSE RSub(RMul(Balance(P, i, pay, k - 1), RAdd(R(1), i)), pay)

\* C5: for a valid parameter set with remaining_months > 0, the balance that
\* starts at loan_amount after the grace period and becomes
\* balance * (1 + monthly_mortgage_rate) - post_grace_payment each post-grace
\* month is non-negative after every payment and zero after the last one.
C5_FullAmortization ==
    LET i == RDiv(params.mortgage_rate, R(12))
        g == GraceMonths(params)
    IN  (Started /\ ParamsValid(params) /\ month > g) =>
            LET b == Balance(params.loan_amount, i, mortgage_pay, month - g)
            IN  /\ mortgage_pay = post_grace_payment
                /\ RLe(R(0), b)
                /\ (month = TotalMonths(params)) => b = R(0)

\* the last payment of a loan of 1 at 100% a month after 3 grace months
C5_Witness ==
    /\ pc = "loop"
    /\ ParamsValid(params)
    /\ params.loan_amount = R(1)
    /\ params.mortgage_rate = R(12)
    /\ GraceMonths(params) = 3
    /\ month = TotalMonths(params)
    /\ month = 12
    /\ Balance(R(1), R(1), mortgage_pay, 8) = Frac(256, 511)
    /\ Balance(R(1), R(1), mortgage_pay, 9) = R(0)

\* rent_initial * (1 + rent_growth_rate)^floor((m-1)/12)
RentLaw(p, m) ==
    RMul(p.rent_initial, RPow(RAdd(R(1), p.rent_growth_rate), (m - 1) \div 12))

\* C6: the rent charged in month m is
\* rent_initial * (1 + rent_growth_rate)^floor((m-1)/12).
C6_RentStepLaw ==
    (Started /\ month >= 1) => current_rent = RentLaw(params, month)

\* month 25 of a rent of 1 that doubles every year: the second adjustment
C6_Witness ==
    /\ pc = "loop"
    /\ month = 25
    /\ params.rent_initial = R(1)
    /\ params.rent_growth_rate = R(1)
    /\ current_rent = R(4)

RECURSIVE SumRent(_, _)
SumRent(p, m) == IF m <= 0 THEN R(0) ELSE RAdd(SumRent(p, m - 1), RentLaw(p, m))

\* C7: after every iteration total_rent_paid is the sum of the rent charged
\* in months 1..m; the returned total is the sum over all total_months
\* months, and 0 when total_months = 0.
C7_TotalRentPaid ==
    /\ Started => total_rent_paid = SumRent(params, month)
    /\ \A r \in result :
           /\ r.total_rent_paid = SumRent(params, TotalMonths(params))
           /\ (TotalMonths(params) = 0) => r.total_rent_paid = R(0)

\* 25 months of a rent of 1 that doubles every year: 12 + 24 + 4
C7_Witness ==
    /\ pc = "done"
    /\ month = 25
    /\ params.rent_initial = R(1)
    /\ params.rent_growth_rate = R(1)
    /\ \E r \in result : r.total_rent_paid = R(40)

\* the payment of month k, post the post-grace payment
PayLaw(p, k, post) ==
    IF k <= GraceMonths(p)
    THEN RMul(p.loan_amount, RDiv(p.mortgage_rate, R(12)))
    ELSE post

\* the cash-flow delta of month k: mortgage payment - rent
DeltaLaw(p, k) == RSub(PayLaw(p, k, post_grace_payment), RentLaw(p, k))

\* sum over k in 1..j of delta_k * (1+r)^(m-k), where pw = (1+r)^(m-j):
\* the terms are taken from k = j down to k = 1
RECURSIVE InvestedDeltas(_, _, _, _)
InvestedDeltas(p, r, j, pw) ==
    IF j <= 0 THEN R(0)
    ELSE RAdd(RMul(DeltaLaw(p, j), pw),
              InvestedDeltas(p, r, j - 1, RMul(pw, RAdd(R(1), r))))

\* down_payment * (1+r)^m + sum over k in 1..m of delta_k * (1+r)^(m-k)
PortfolioLaw(p, r, m) ==
    RAdd(RMul(p.down_payment, RPow(RAdd(R(1), r), m)), InvestedDeltas(p, r, m, R(1)))

\* C8: with invest_difference true the portfolio is grown before the
\* month's delta is added, so after N months it is
\* down_payment * (1+r)^N + sum of delta_m * (1+r)^(N-m), the last delta
\* without growth; the returned portfolio is that of N = total_months, a
\* number of months (N >= 0).
C8_GrowthBeforeContribution ==
    params.invest_difference =>
        /\ Started => stock_portfolio = PortfolioLaw(params, monthly_stock_return, month)
        /\ TotalMonths(params) >= 0 =>
               \A r \in result :
                   r.final_stock_portfolio =
                       PortfolioLaw(params, monthly_stock_return, TotalMonths(params))

\* a year at a monthly stock rate of 1 with deltas that are not zero
C8_Witness ==
    /\ pc = "done"
    /\ params.invest_difference
    /\ month = 12
    /\ monthly_stock_return = R(1)
    /\ params.down_payment = R(1)
    /\ params.loan_amount = R(1)
    /\ params.mortgage_rate = R(12)
    /\ params.rent_initial = R(0)
    /\ GraceMonths(params) = 0
    /\ stock_portfolio = RAdd(R(4096), RMul(R(4095), Frac(4096, 4095)))

RECURSIVE SumDelta(_, _)
SumDelta(p, m) == IF m <= 0 THEN R(0) ELSE RAdd(SumDelta(p, m - 1), DeltaLaw(p, m))

\* C9: when invest_difference is true cash_savings is 0 in every state; when
\* it is false the deltas add up in cash_savings and the portfolio is
\* down_payment grown month by month, whatever the loan, rate, grace and rent.
C9_FlagRouting ==
    IF params.invest_difference
    THEN cash_savings = R(0)
    ELSE Started =>
            /\ cash_savings = SumDelta(params, month)
            /\ stock_portfolio =
                   RMul(params.down_payment, RPow(RAdd(R(1), monthly_stock_return), month))

\* six months of saving the deltas beside a portfolio that doubles every month
C9_Witness ==
    /\ pc = "loop"
    /\ ~params.invest_difference
    /\ month = 6
    /\ monthly_stock_return = R(1)
    /\ params.down_payment = R(1)
    /\ params.loan_amount = R(1)
    /\ params.rent_initial = R(1)
    /\ cash_savings # R(0)
    /\ stock_portfolio = R(64)

\* C10: with invest_difference false and mortgage_years a whole number the
\* final portfolio is down_payment * (1 + stock_return_rate)^mortgage_years.
C10_CompoundingLaw ==
    (~params.invest_difference /\ params.mortgage_years.d = 1
        /\ params.mortgage_years.n >= 0) =>
        \A r \in result :
            r.final_stock_portfolio =
                RMul(params.down_payment,
                     RPow(RAdd(R(1), params.stock_return_rate), params.mortgage_years.n))

\* one year at 409500% a year: the down payment of 1 ends at 4096
C10_Witness ==
    /\ pc = "done"
    /\ ~params.invest_difference
    /\ params.mortgage_years = R(1)
    /\ params.stock_return_rate = R(4095)
    /\ params.down_payment = R(1)
    /\ \E r \in result : r.final_stock_portfolio = R(4096)

\* (1 + g) ** years for the growth rates of the model: 1 for g = 0, and
\* 256 ** (e/8) = 2 ** e for g = 255 and years = e/8
HouseGrowthFactor(g, years) ==
    IF g = R(0) THEN R(1) ELSE RPow(R(2), years.n * (8 \div years.d))

\* C11: the returned buy_net_worth is
\* (loan_amount + down_payment) * (1 + house_growth_rate)^mortgage_years, a
\* function of these four inputs alone.
C11_TerminalHouseValue ==
    \A r \in result :
        r.buy_net_worth =
            RMul(RAdd(params.loan_amount, params.down_payment),
                 HouseGrowthFactor(params.house_growth_rate, params.mortgage_years))

\* a house of 2 growing 25500% a year for 3/8 of a year: 2 * 2^3
C11_Witness ==
    /\ pc = "done"
    /\ params.loan_amount = R(1)
    /\ params.down_payment = R(1)
    /\ params.house_growth_rate = R(255)
    /\ params.mortgage_years = Frac(3, 8)
    /\ \E r \in result : r.buy_net_worth = R(16)

\* C12: the returned rent_net_worth is the returned final_stock_portfolio
\* plus the returned cash_savings, whatever invest_difference is.
C12_RentNetWorth ==
    \A r \in result :
        r.rent_net_worth = RAdd(r.final_stock_portfolio, r.cash_savings)

\* a returned record with the deltas saved, the cash balance not zero
C12_Witness ==
    /\ pc = "done"
    /\ ~params.invest_difference
    /\ params.down_payment = R(1)
    /\ \E r \in result :
           /\ r.cash_savings # R(0)
           /\ r.final_stock_portfolio # R(0)
           /\ r.rent_net_worth = RAdd(r.final_stock_portfolio, r.cash_savings)

\* C13: the returned record holds a buy-side and a rent-side per-month
\* net-worth sequence, each of length total_months.
C13_MonthlySequences ==
    \A r \in result :
        /\ "monthly_buy_net_worths" \in DOMAIN r
        /\ "monthly_rent_net_worths" \in DOMAIN r
        /\ Len(r.monthly_buy_net_worths) = TotalMonths(params)
        /\ Len(r.monthly_rent_net_worths) = TotalMonths(params)

\* stock_portfolio + cash_savings as they stand after month m
RentSideLaw(p, r, m) ==
    IF p.invest_difference
    THEN PortfolioLaw(p, r, m)
    ELSE RAdd(RMul(p.down_payment, RPow(RAdd(R(1), r), m)), SumDelta(p, m))

\* C14: the m-th entry of the returned rent-side sequence is
\* stock_portfolio + cash_savings after month m, so the last entry is the
\* returned rent_net_worth.
C14_RentSideEntries ==
    \A r \in result :
        /\ "monthly_rent_net_worths" \in DOMAIN r
        /\ \A m \in 1..TotalMonths(params) :
               r.monthly_rent_net_worths[m] = RentSideLaw(params, monthly_stock_return, m)
        /\ TotalMonths(params) >= 1 =>
               r.monthly_rent_net_worths[TotalMonths(params)] = r.rent_net_worth

\* C15: once the loop is reached, total_months = mortgage_years * 12 and
\* grace_months = grace_period_years * 12 are non-negative integers with
\* grace_months <= total_months, so remaining_months >= 0.
C15_MonthCounts ==
    Started =>
        /\ R(TotalMonths(params)) = RMul(params.mortgage_years, R(12))
        /\ R(GraceMonths(params)) = RMul(params.grace_period_years, R(12))
        /\ TotalMonths(params) >= 0
        /\ GraceMonths(params) >= 0
        /\ GraceMonths(params) <= TotalMonths(params)
        /\ RemainingMonths(params) >= 0

\* grace_period_years = mortgage_years with a real month count
Degenerate(p) ==
    /\ p.grace_period_years = p.mortgage_years
    /\ TotalMonths(p) >= 0

InterestOnly(p) == RMul(p.loan_amount, MonthlyMortgageRate(p))

\* C16: when grace_period_years = mortgage_years the call ends with a
\* result record, the post-grace payment is 0, every month
\* is charged loan_amount * monthly_mortgage_rate, and total_mortgage_paid
\* is total_months times that amount.
C16_DegenerateAmortization ==
    Degenerate(params) =>
        /\ RemainingMonths(params) = 0
        /\ Started =>
              /\ post_grace_payment = R(0)
              /\ month >= 1 => mortgage_pay = InterestOnly(params)
              /\ total_mortgage_paid = RMul(R(month), InterestOnly(params))
        /\ pc = "done" =>
              /\ result # {}
              /\ \A r \in result :
                    /\ r.post_grace_monthly_pay = R(0)
                    /\ r.total_mortgage_paid =
                           RMul(R(TotalMonths(params)), InterestOnly(params))

C16_Witness ==
    /\ pc = "done"
    /\ params.mortgage_years = Frac(1, 4)
    /\ params.grace_period_years = Frac(1, 4)
    /\ params.loan_amount = R(1)
    /\ params.mortgage_rate = R(12)
    /\ month = 3
    /\ \E r \in result :
          r.post_grace_monthly_pay = R(0) /\ r.total_mortgage_paid = R(3)

\* the number of values of range(1, total_months + 1)
Iterations(p) == Cardinality(1..TotalMonths(p))

C19_WitnessZero ==
    /\ pc = "done"
    /\ TotalMonths(params) = 0
    /\ month = 0
    /\ result # {}

\* C20: the payment charged in a month after the grace period is the
\* returned post_grace_monthly_pay, the payment charged in a grace month is
\* the returned grace_monthly_pay, and grace_monthly_pay is 0 when
\* grace_months = 0.
C20_PaymentConstants ==
    /\ Started /\ month >= 1 =>
          mortgage_pay = IF month <= GraceMonths(params)
                         THEN ResultRecord.grace_monthly_pay
                         ELSE ResultRecord.post_grace_monthly_pay
    /\ \A r \in result :
          /\ \A k \in 1..month :
                PayLaw(params, k, post_grace_payment) =
                    IF k <= GraceMonths(params)
                    THEN r.grace_monthly_pay
                    ELSE r.post_grace_monthly_pay
          /\ GraceMonths(params) = 0 => r.grace_monthly_pay = R(0)

C20_Witness ==
    /\ pc = "done"
    /\ GraceMonths(params) = 1
    /\ month = 3
    /\ \E r \in result :
          /\ r.grace_monthly_pay = R(1)
          /\ r.post_grace_monthly_pay = Frac(4, 3)

\* C17: calls with equal arguments return equal records, whatever calls
\* were made in between and in whatever order, and each call returns the
\* record of a call that starts from fresh locals: nothing an earlier call
\* wrote is read.
C17_Determinism ==
    /\ \A a, b \in 1..Len(history) :
          history[a][1] = history[b][1] => history[a][2] = history[b][2]
    /\ \A a \in 1..Len(history) :
          {history[a][2]} = ResultAlone(history[a][1])

C17_Witness ==
    /\ Len(history) = 3
    /\ history[1][1] = history[3][1]
    /\ history[2][1] # history[1][1]
    /\ history[1][2] = history[3][2]
    /\ history[2][2].total_rent_paid # history[1][2].total_rent_paid

\* C18: with the steps of two calls with different arguments interleaved
\* in any way, each call returns the record it returns on its own; a step
\* of one call changes the locals of that call only.
C18_Reentrancy ==
    /\ [](pc = "done" => result = ResultAlone(params))
    /\ [](other.pc = "done" => other.result = ResultAlone(other.params))
    /\ [][other' # other => UNCHANGED Frame]_vars
    /\ [][Frame' # Frame => other' = other /\ Frame' = StepFrame(Frame)]_vars

C18_Witness ==
    /\ pc = "done"
    /\ other.pc = "done"
    /\ params # other.params
    /\ result # other.result
    /\ result = ResultAlone(params)
    /\ other.result = ResultAlone(other.params)

\* the case of the annuity formula: a loan, a positive rate, months left
AnnuityCase(p) ==
    /\ RLt(R(0), p.loan_amount)
    /\ RLt(R(0), p.mortgage_rate)
    /\ RemainingMonths(p) > 0

GuiKeys ==
    {"grace_period_years", "grace_monthly_pay", "post_grace_monthly_pay",
     "total_months", "monthly_mortgage_payments", "grace_months",
     "monthly_stock_investments", "monthly_buy_net_worths",
     "monthly_rent_net_worths", "mortgage_years", "house_price_initial",
     "buy_total_spent", "total_mortgage_paid", "loan_amount", "buy_net_worth",
     "total_rent_paid", "final_stock_portfolio", "cash_savings",
     "rent_net_worth"}

\* the keys of the result that app.py reads
AppKeys ==
    {"buy_net_worth", "rent_net_worth", "buy_total_spent", "total_rent_paid",
     "total_months", "monthly_buy_net_worths", "monthly_rent_net_worths"}

\* res[key] for every key of keys: a dict raises KeyError on a missing key
ReadKeys(r, keys) == IF keys \subseteq DOMAIN r THEN "rendered" ELSE "KeyError"

\* CalculatorApp._display_results(res)
DisplayResults(r) == ReadKeys(r, GuiKeys)

\* the rendering part of app.py
AppRender(r) == ReadKeys(r, AppKeys)

\* C22: every key the presentation layers read is in the returned record,
\* so rendering a successful evaluation raises no KeyError.
C22_PresentationKeys ==
    \A r \in result :
        /\ GuiKeys \subseteq DOMAIN r
        /\ AppKeys \subseteq DOMAIN r
        /\ DisplayResults(r) = "rendered"
        /\ AppRender(r) = "rendered"

\* what parsing the entry fields can do: float() of text that is no number
\* raises ValueError, int(float("inf")) raises OverflowError
ParseOutcomes == {"ok", "ValueError", "OverflowError"}

\* what the engine call can do, seen from the caller
EngineOutcomes == {"ok", "AssertionError", "ZeroDivisionError"}

\* CalculatorApp._run_calc: the message box shown, the exception that
\* leaves the method, whether _display_results was called
RunCalc(parse, engine, r) ==
    IF parse = "ValueError"
    THEN [message |-> "input error", escaped |-> "none", displayed |-> FALSE]
    ELSE IF parse # "ok"
    THEN [message |-> "none", escaped |-> parse, displayed |-> FALSE]
    ELSE IF engine = "AssertionError"
    THEN [message |-> "validation failed", escaped |-> "none", displayed |-> FALSE]
    ELSE IF engine # "ok"
    THEN [message |-> "calculation error", escaped |-> "none", displayed |-> FALSE]
    ELSE IF DisplayResults(r) = "rendered"
    THEN [message |-> "none", escaped |-> "none", displayed |-> TRUE]
    ELSE [message |-> "none", escaped |-> DisplayResults(r), displayed |-> TRUE]

\* app.py: one try block around the engine call and the rendering, with
\* except AssertionError only
AppRun(engine, r) ==
    IF engine = "AssertionError"
    THEN [message |-> "parameter error", escaped |-> "none"]
    ELSE IF engine # "ok"
    THEN [message |-> "none", escaped |-> engine]
    ELSE IF AppRender(r) = "rendered"
    THEN [message |-> "none", escaped |-> "none"]
    ELSE [message |-> "none", escaped |-> AppRender(r)]

\* C23: whatever parsing, the engine call and the rendering do, no
\* exception leaves _run_calc or app.py, a failure ends in a message, and
\* in _run_calc a failure of parsing or of the engine call does not reach
\* _display_results.
C23_FailureSurfaced ==
    \A r \in result :
        \A parse \in ParseOutcomes, engine \in EngineOutcomes :
            LET g == RunCalc(parse, engine, r)
                a == AppRun(engine, r)
            IN  /\ g.escaped = "none"
                /\ a.escaped = "none"
                /\ (parse # "ok" \/ engine # "ok") =>
                       g.message # "none" /\ ~g.displayed
                /\ engine # "ok" => a.message # "none"
                /\ DisplayResults(r) # "rendered" /\ parse = "ok" /\ engine = "ok" =>
                       g.message # "none"
                /\ AppRender(r) # "rendered" /\ engine = "ok" => a.message # "none"

\* C24: with invest_difference false, cash_savings is total_mortgage_paid -
\* total_rent_paid after every iteration, negative when the rent is the
\* larger, and the returned rent_net_worth is final_stock_portfolio +
\* total_mortgage_paid - total_rent_paid.
C24_CashSavingsIdentity ==
    Started /\ ~params.invest_difference =>
        /\ cash_savings = RSub(total_mortgage_paid, total_rent_paid)
        /\ \A r \in result :
              /\ r.cash_savings = RSub(r.total_mortgage_paid, r.total_rent_paid)
              /\ r.rent_net_worth =
                     RAdd(r.final_stock_portfolio,
                          RSub(r.total_mortgage_paid, r.total_rent_paid))

C24_Witness ==
    /\ pc = "done"
    /\ ~params.invest_difference
    /\ month >= 2
    /\ total_mortgage_paid # R(0)
    /\ \E r \in result :
          /\ RLt(r.cash_savings, R(0))
          /\ r.cash_savings = RSub(r.total_mortgage_paid, r.total_rent_paid)

\* the interest-only and the post-grace part of the payments of a run
GraceTotal(p, post) ==
    RAdd(RMul(R(GraceMonths(p)), InterestOnly(p)),
         RMul(R(TotalMonths(p) - GraceMonths(p)), post))

C25_WitnessWithin ==
    /\ pc = "done"
    /\ GraceMonths(params) = 1
    /\ TotalMonths(params) = 3
    /\ \E r \in result : r.total_mortgage_paid = Frac(11, 3)

\* calculator_gui.py line 904: the mortgage interest row of the buy card
MortgageInterest(r) == RSub(r.total_mortgage_paid, r.loan_amount)

\* C26: for a valid parameter set (loan_amount >= 0 and mortgage_rate >= 0
\* among its constraints) the interest shown, total_mortgage_paid -
\* loan_amount, is not negative, a full-term grace period included, and it
\* is 0 when mortgage_rate = 0 and remaining_months > 0.
C26_InterestNotNegative ==
    \A r \in result :
        ParamsValid(params) =>
            /\ RLe(R(0), MortgageInterest(r))
            /\ params.mortgage_rate = R(0) /\ RemainingMonths(params) > 0 =>
                   MortgageInterest(r) = R(0)

\* calculator.py line 134: the indicator is "yes" when cash_savings == 0
InvestIndicator(r) == r.cash_savings = R(0)

\* C27: the invest-difference indicator of the console report equals the
\* invest_difference flag of the call, for every valid parameter set.
C27_IndicatorIsFlag ==
    \A r \in result :
        ParamsValid(params) => InvestIndicator(r) = params.invest_difference

\* the integer nearest to a, the even one of two equally near: the number
\* that the format ",.0f" prints
RoundHalfEven(a) ==
    LET x == Abs(a.n)
        f == x \div a.d
        twice == 2 * (x - f * a.d)
        near == IF twice < a.d THEN f
                ELSE IF twice > a.d THEN f + 1
                ELSE IF f % 2 = 0 THEN f ELSE f + 1
    IN  IF a.n >= 0 THEN near ELSE -near

\* calculator.py fmt(num), the number its text shows
Fmt(a) == RoundHalfEven(a)

\* calculator.py lines 162-168: the RESULT line of the console report
ConsoleVerdict(r) ==
    LET diff == RSub(r.buy_net_worth, r.rent_net_worth)
    IN  IF RLt(R(0), diff)
        THEN [winner |-> "buy", margin |-> Fmt(diff)]
        ELSE [winner |-> "rent", margin |-> Fmt(RNeg(diff))]

\* app.py lines 48-53: st.success or st.info, the margin printed with ",.0f"
AppVerdict(r) ==
    LET diff == RSub(r.buy_net_worth, r.rent_net_worth)
    IN  IF RLt(R(0), diff)
        THEN [winner |-> "buy", margin |-> RoundHalfEven(diff)]
        ELSE [winner |-> "rent", margin |-> RoundHalfEven(RNeg(diff))]

\* variant: an exact tie is given to buying
GuiVerdict_TieBuys(r) ==
    LET diff == RSub(r.buy_net_worth, r.rent_net_worth)
    IN  IF RLe(R(0), diff)
        THEN [winner |-> "buy", margin |-> Fmt(diff)]
        ELSE [winner |-> "rent", margin |-> Fmt(RNeg(diff))]

\* calculator_gui.py lines 941-955: the verdict banner
GuiVerdict(r) ==
    LET diff == RSub(r.buy_net_worth, r.rent_net_worth)
    IN  IF RLt(R(0), diff)
        THEN [winner |-> "buy", margin |-> Fmt(diff)]
        ELSE [winner |-> "rent", margin |-> Fmt(RNeg(diff))]

\* |buy_net_worth - rent_net_worth|
AbsDiff(r) ==
    LET diff == RSub(r.buy_net_worth, r.rent_net_worth)
    IN  IF RLt(diff, R(0)) THEN RNeg(diff) ELSE diff

\* the three layers agree and buying wins exactly when the difference is
\* positive
SameVerdict(r) ==
    /\ AppVerdict(r) = ConsoleVerdict(r)
    /\ GuiVerdict(r) = ConsoleVerdict(r)
    /\ ConsoleVerdict(r).winner =
           IF RLt(R(0), RSub(r.buy_net_worth, r.rent_net_worth))
           THEN "buy" ELSE "rent"

C28_WitnessRounded ==
    /\ pc = "done"
    /\ \E r \in result :
          /\ AbsDiff(r).d = 2
          /\ ConsoleVerdict(r).winner = "buy"
          /\ ConsoleVerdict(r).margin >= 1
====
